---- MODULE Spec2Model ----
(***************************************************************************)
(* Model of the batch conversion orchestrator, src/python/converter.py,    *)
(* under the specification Spec, and of the tkinter front-end,             *)
(* src/converter.py, under the specification SpecGui.                      *)
(*                                                                         *)
(* A string is a sequence of one-character strings, a path (pathlib.Path)  *)
(* is the sequence of its components, each component a string.  All paths  *)
(* are absolute; the root directory is the empty sequence.  The            *)
(* filesystem fs maps every existing path to its kind: "file" (regular     *)
(* file), "dir" (directory) or "other" (FIFO, socket, device: exists, but  *)
(* neither is_file() nor is_dir()).                                        *)
(***************************************************************************)
EXTENDS Integers, Sequences, FiniteSets, TLC

VARIABLES
    fs,            \* the filesystem: existing path -> kind
    args_input,    \* args.input: the raw input strings
    output_dir,    \* Path(args.output)
    pc,            \* position of main()
    ci,            \* collect_files: index of the next input path
    files,         \* collect_files / main: the discovered files
    total,         \* main: len(files)
    input_base,    \* main: base path of the relative output structure
    successful,    \* main: counter
    failed,        \* main: counter
    results,       \* main: list of per-file results
    idx,           \* main: 1-based index of the file being processed
    output_path,   \* get_output_path: candidate before collision resolution
    output_file,   \* main: path returned by get_output_path
    out,           \* standard output: the records printed so far
    exit_code,     \* process exit status (-1 while running)
    converter_calls, \* calls of convert_file, the only user of the converter
    writes,        \* paths opened for writing by write_text, in order
    \* the front-end, DoclingConverterApp
    file_path,     \* self.file_path (StringVar), as a path; <<>> is ""
    btn_state,     \* state of self.convert_btn
    progress_on,   \* self.progress is running
    status_var,    \* self.status_var
    last_dialog,   \* the message box shown last
    workers,       \* the live do_conversion threads
    after_queue,   \* callbacks scheduled by root.after(0, ...), in order
    started,       \* threads started by convert_file so far
    completed,     \* calls of conversion_complete so far
    callback_errors \* exceptions raised by scheduled callbacks

guiVars == <<file_path, btn_state, progress_on, status_var, last_dialog,
             workers, after_queue, started, completed, callback_errors>>

cliVars == <<args_input, output_dir, pc, ci, files, total, input_base,
             successful, failed, results, idx, output_path, output_file, out,
             exit_code, converter_calls, writes>>

vars == <<fs, cliVars, guiVars>>

-----------------------------------------------------------------------------
(* Bounds of the model *)

\* longest input list args.input
MaxInputs == 2

\* most conversions started in one session of the front-end
MaxConversions == 2

-----------------------------------------------------------------------------
(* Strings *)

SLASH == "/"
DOT == "."

\* str.lower() on one character
LowerChar(c) ==
    CASE c = "A" -> "a" [] c = "B" -> "b" [] c = "C" -> "c" [] c = "D" -> "d"
      [] c = "F" -> "f" [] c = "M" -> "m" [] c = "P" -> "p" [] c = "T" -> "t"
      [] c = "X" -> "x" [] c = "Y" -> "y"
      [] OTHER -> c

\* str.lower()
Lower(s) == [k \in 1..Len(s) |-> LowerChar(s[k])]

\* str(n) for a natural number: its decimal digits
DigitChar(d) ==
    CASE d = 0 -> "0" [] d = 1 -> "1" [] d = 2 -> "2" [] d = 3 -> "3"
      [] d = 4 -> "4" [] d = 5 -> "5" [] d = 6 -> "6" [] d = 7 -> "7"
      [] d = 8 -> "8" [] d = 9 -> "9"

RECURSIVE IntStr(_)
IntStr(n) == IF n < 10 THEN <<DigitChar(n)>>
             ELSE IntStr(n \div 10) \o <<DigitChar(n % 10)>>

\* str.rfind('.'): 1-based position of the last dot, 0 if there is none
RECURSIVE RFindDot(_, _)
RFindDot(s, k) == IF k = 0 THEN 0
                  ELSE IF s[k] = DOT THEN k ELSE RFindDot(s, k - 1)

-----------------------------------------------------------------------------
(* pathlib: pure path operations *)

\* PurePath.suffix: name[i:] when the last dot is neither first nor last
Suffix(name) ==
    LET i == RFindDot(name, Len(name))
    IN  IF 1 < i /\ i < Len(name) THEN SubSeq(name, i, Len(name)) ELSE <<>>

\* PurePath.stem
Stem(name) ==
    LET i == RFindDot(name, Len(name))
    IN  IF 1 < i /\ i < Len(name) THEN SubSeq(name, 1, i - 1) ELSE name

\* PurePath.name: the last component, "" for the root
Name(p) == IF Len(p) = 0 THEN <<>> ELSE p[Len(p)]

\* PurePath.parent (the root is its own parent)
Parent(p) == IF Len(p) = 0 THEN p ELSE SubSeq(p, 1, Len(p) - 1)

\* parent / name
Join(p, name) == Append(p, name)

\* Path(s) for an absolute string: split at "/", dropping empty and "."
\* components (pathlib collapses repeated and trailing slashes)
RECURSIVE ParsePath(_, _, _)
ParsePath(s, k, cur) ==
    LET flush == IF cur = <<>> \/ cur = <<DOT>> THEN <<>> ELSE <<cur>>
    IN  IF k > Len(s) THEN flush
        ELSE IF s[k] = SLASH THEN flush \o ParsePath(s, k + 1, <<>>)
        ELSE ParsePath(s, k + 1, Append(cur, s[k]))

Path(s) == ParsePath(s, 1, <<>>)

\* str(path): "/" before every component, "/" alone for the root
RECURSIVE StrFrom(_, _)
StrFrom(p, k) == IF k > Len(p) THEN <<>>
                 ELSE <<SLASH>> \o p[k] \o StrFrom(p, k + 1)

Str(p) == IF Len(p) = 0 THEN <<SLASH>> ELSE StrFrom(p, 1)

\* base is a (not necessarily proper) lexical ancestor of p
IsPrefix(base, p) ==
    /\ Len(base) <= Len(p)
    /\ \A k \in 1..Len(base) : base[k] = p[k]

\* PurePath.with_suffix(suffix) is defined when the name is not empty
HasName(p) == Len(p) > 0 /\ Len(Name(p)) > 0

\* PurePath.with_suffix(suffix), for a path with a name
WithSuffix(p, suffix) ==
    LET name == Name(p)
        old  == Suffix(name)
        new  == IF old = <<>> THEN name \o suffix
                ELSE SubSeq(name, 1, Len(name) - Len(old)) \o suffix
    IN  Join(Parent(p), new)

\* PurePath.relative_to(base), for IsPrefix(base, p)
RelativeTo(p, base) == SubSeq(p, Len(base) + 1, Len(p))

MD == <<".", "m", "d">>

\* SUPPORTED_EXTENSIONS
SUPPORTED_EXTENSIONS ==
    { <<".", "p", "d", "f">>, <<".", "d", "o", "c", "x">>,
      <<".", "p", "p", "t", "x">>, <<".", "x", "l", "s", "x">>,
      <<".", "h", "t", "m", "l">>, <<".", "h", "t", "m">>,
      <<".", "p", "n", "g">>, <<".", "j", "p", "g">>,
      <<".", "j", "p", "e", "g">>, <<".", "g", "i", "f">>,
      <<".", "b", "m", "p">>, <<".", "t", "i", "f", "f">>,
      <<".", "w", "e", "b", "p">> }

-----------------------------------------------------------------------------
(* pathlib: filesystem queries and updates, on a filesystem f *)

Exists(f, p) == p \in DOMAIN f
IsFile(f, p) == p \in DOMAIN f /\ f[p] = "file"
IsDir(f, p)  == p \in DOMAIN f /\ f[p] = "dir"

\* the non-empty prefixes of p: p and its ancestors below the root
Prefixes(p) == { SubSeq(p, 1, k) : k \in 1..Len(p) }

\* Path.mkdir(parents=True, exist_ok=True) succeeds iff no prefix of the
\* path exists as something that is not a directory; a failure creates
\* nothing and raises FileExistsError / NotADirectoryError
MkdirOk(f, p) == \A q \in Prefixes(p) : Exists(f, q) => IsDir(f, q)

Mkdir(f, p) ==
    [q \in DOMAIN f \cup Prefixes(p) |-> IF q \in DOMAIN f THEN f[q] ELSE "dir"]

\* the file created (or truncated) by open(p, 'w')
CreateFile(f, p) ==
    [q \in DOMAIN f \cup {p} |-> IF q = p THEN "file" ELSE f[q]]

\* open(p, 'w') can succeed: the parent is a directory, p is no directory
CanOpenForWrite(f, p) == IsDir(f, Parent(p)) /\ ~IsDir(f, p)

\* Path.rglob('*'): every proper descendant of the directory
Descendants(f, p) == { q \in DOMAIN f : IsPrefix(p, q) /\ q # p }

\* the orders in which a directory walk can enumerate a set of paths
Orders(S) ==
    { s \in [1..Cardinality(S) -> S] :
        \A a, b \in 1..Cardinality(S) : a # b => s[a] # s[b] }

-----------------------------------------------------------------------------
(* The program's functions *)

\* emit_status leaving out the error field
emit_status_NoError(status, message, file, progress, tot, error) ==
    [status |-> status, message |-> message, file |-> file,
     progress |-> progress, total |-> tot]

\* emit_status: the record printed, all six fields always present
emit_status(status, message, file, progress, tot, error) ==
    [status |-> status, message |-> message, file |-> file,
     progress |-> progress, total |-> tot, error |-> error]

\* the while loop of get_unique_output_path, from a given counter
RECURSIVE UniqueFrom(_, _, _, _, _)
UniqueFrom(f, parent, base, ext, counter) ==
    LET new_path == Join(parent, base \o <<"_">> \o IntStr(counter) \o ext)
    IN  IF ~Exists(f, new_path) THEN new_path
        ELSE UniqueFrom(f, parent, base, ext, counter + 1)

\* get_unique_output_path without the existence check
get_unique_output_path_NoCheck(f, path) == path

\* get_unique_output_path with the counter starting at 2
get_unique_output_path_From2(f, path) ==
    IF ~Exists(f, path) THEN path
    ELSE UniqueFrom(f, Parent(path), Stem(Name(path)), Suffix(Name(path)), 2)

\* get_unique_output_path
get_unique_output_path(f, path) ==
    IF ~Exists(f, path) THEN path
    ELSE UniqueFrom(f, Parent(path), Stem(Name(path)), Suffix(Name(path)), 1)

\* get_output_path that always uses the bare file name
CandidatePath_Flat(input_file, base, outdir) ==
    Join(outdir, Name(WithSuffix(input_file, MD)))

\* get_output_path, the try/except: the candidate path before mkdir.
\* relative_to raises ValueError when input_base is no lexical ancestor,
\* with_suffix raises ValueError when the relative path has no name; both
\* are caught and fall back to the bare file name.
CandidatePath(input_file, base, outdir) ==
    IF IsPrefix(base, input_file) /\ HasName(RelativeTo(input_file, base))
    THEN outdir \o WithSuffix(RelativeTo(input_file, base), MD)
    ELSE Join(outdir, Name(WithSuffix(input_file, MD)))

\* get_output_path that reserves the returned name by creating the file
ResolvedFs_Touch(f, cand) ==
    CreateFile(Mkdir(f, Parent(cand)),
               get_unique_output_path(Mkdir(f, Parent(cand)), cand))

\* get_output_path, line 90: the filesystem when get_output_path returns;
\* only the parent directories of the candidate are created
ResolvedFs(f, cand) == Mkdir(f, Parent(cand))

\* the extension test without .lower()
IsSupported_CaseSensitive(p) == Suffix(Name(p)) \in SUPPORTED_EXTENSIONS

\* path.suffix.lower() in SUPPORTED_EXTENSIONS
IsSupported(p) == Lower(Suffix(Name(p))) \in SUPPORTED_EXTENSIONS

\* collect_files, directory branch: the files an rglob of p appends
DirMatches(f, p) == { q \in Descendants(f, p) : IsFile(f, q) /\ IsSupported(q) }

\* input_base without the single-directory case
InputBase_FirstParent(f, inputs, found) ==
    IF Len(found) > 0 THEN Parent(found[1]) ELSE <<>>

\* main: the base path for the relative output structure
InputBase(f, inputs, found) ==
    IF Len(inputs) = 1 /\ IsDir(f, Path(inputs[1])) THEN Path(inputs[1])
    ELSE IF Len(found) > 0 THEN Parent(found[1]) ELSE <<>>

\* main: the summary record
Summary(succ, fail, tot, res) ==
    [status |-> "complete",
     message |-> <<"Conversion complete: ">> \o IntStr(succ)
                 \o <<" succeeded, ">> \o IntStr(fail) \o <<" failed">>,
     successful |-> succ, failed |-> fail, total |-> tot, results |-> res]

-----------------------------------------------------------------------------
(* The environment: the filesystems and arguments a run can start from *)

docs   == <<"d", "o", "c", "s">>
outn   == <<"o", "u", "t">>
xdir   == <<"x">>
a_pdf  == <<"a", ".", "p", "d", "f">>
c_txt  == <<"c", ".", "t", "x", "t">>
y_PDF  == <<"y", ".", "P", "D", "F">>
a_md   == <<"a", ".", "m", "d">>
a_1_md == <<"a", "_", "1", ".", "m", "d">>
pipe   == <<"p", "i", "p", "e">>
nope   == <<"n", "o", "p", "e">>

\* the input tree, present in every initial filesystem
BaseFs ==
    ( <<>> :> "dir" ) @@ ( <<docs>> :> "dir" ) @@ ( <<docs, a_pdf>> :> "file" )
    @@ ( <<docs, c_txt>> :> "file" )
    @@ ( <<docs, xdir>> :> "dir" ) @@ ( <<docs, xdir, y_PDF>> :> "file" )
    @@ ( <<pipe>> :> "other" )

\* what may already lie at and under /out
OutFs ==
    { <<>> :> "dir", ( <<outn>> :> "file" ) }
    \cup { ( <<outn>> :> "dir" ) @@ am @@ a1 @@ ox :
             am \in { <<>> :> "dir", <<outn, a_md>> :> "file" },
             a1 \in { <<>> :> "dir", <<outn, a_1_md>> :> "file" },
             ox \in { <<>> :> "dir", <<outn, xdir>> :> "file" } }

InitialFs == { BaseFs @@ o : o \in OutFs }

\* the strings a user may pass as --input
InputStrings ==
    { Str(<<docs>>) \o <<SLASH>>, Str(<<docs, a_pdf>>), Str(<<docs, c_txt>>),
      Str(<<docs, xdir, y_PDF>>), Str(<<nope>>), Str(<<pipe>>) }

\* the strings a user may pass as --output; the runs that write into the
\* input tree start with nothing at /out
OutputStrings == { Str(<<outn>>), Str(<<docs>>) }

\* non-empty lists (nargs='+') of at most MaxInputs input strings
InputLists == UNION { [1..n -> InputStrings] : n \in 1..MaxInputs }

\* str(e) of the exceptions convert_file catches: those raised before the
\* output file is created, and those raised by the write itself
ConvertErrors == { <<"conversion failed">> }
WriteErrors == { <<"write failed">> }

-----------------------------------------------------------------------------
(* main() *)

\* DoclingConverterApp.__init__: the widgets as constructed
GuiConstructed ==
    /\ file_path = <<>>
    /\ btn_state = "normal"
    /\ progress_on = FALSE
    /\ status_var = "Select a file to convert"
    /\ last_dialog = "none"
    /\ workers = {}
    /\ after_queue = <<>>
    /\ started = 0
    /\ completed = 0
    /\ callback_errors = 0

Init ==
    /\ GuiConstructed
    /\ fs \in InitialFs
    /\ args_input \in InputLists
    /\ output_dir \in { Path(s) : s \in OutputStrings }
    /\ output_dir # <<outn>> => fs = BaseFs
    /\ pc = "start"
    /\ ci = 1
    /\ files = <<>>
    /\ total = 0
    /\ input_base = <<>>
    /\ successful = 0
    /\ failed = 0
    /\ results = <<>>
    /\ idx = 0
    /\ output_path = <<>>
    /\ output_file = <<>>
    /\ out = <<>>
    /\ exit_code = -1
    /\ converter_calls = 0
    /\ writes = <<>>

\* main, lines 121-124: create the output directory, emit "starting".
\* An uncaught OSError of mkdir ends the process with a traceback, status 1.
Start ==
    /\ UNCHANGED guiVars
    /\ pc = "start"
    /\ IF MkdirOk(fs, output_dir)
       THEN /\ fs' = Mkdir(fs, output_dir)
            /\ out' = Append(out, emit_status("starting", <<"Collecting files...">>,
                                              <<>>, 0, 0, <<>>))
            /\ pc' = "collect"
            /\ exit_code' = exit_code
       ELSE /\ pc' = "crashed"
            /\ exit_code' = 1
            /\ UNCHANGED <<fs, out>>
    /\ UNCHANGED <<args_input, output_dir, ci, files, total, input_base,
                   successful, failed, results, idx, output_path, output_file,
                   converter_calls, writes>>

\* collect_files, one iteration of the loop over input_paths
CollectInput ==
    /\ UNCHANGED guiVars
    /\ pc = "collect"
    /\ ci <= Len(args_input)
    /\ LET input_path == args_input[ci]
           path == Path(input_path)
       IN  IF IsFile(fs, path)
           THEN IF IsSupported(path)
                THEN /\ files' = Append(files, path)
                     /\ out' = out
                ELSE /\ files' = files
                     /\ out' = Append(out, emit_status("warning",
                                  <<"Unsupported file format: ">> \o Suffix(Name(path)),
                                  Str(path), 0, 0, <<>>))
           ELSE IF IsDir(fs, path)
                THEN /\ \E order \in Orders(DirMatches(fs, path)) :
                            files' = files \o order
                     /\ out' = out
                ELSE /\ files' = files
                     /\ out' = Append(out, emit_status("error",
                                  <<"Path does not exist: ">> \o input_path,
                                  input_path, 0, 0, <<>>))
    /\ ci' = ci + 1
    /\ UNCHANGED <<fs, args_input, output_dir, pc, total, input_base,
                   successful, failed, results, idx, output_path, output_file,
                   exit_code, converter_calls, writes>>

\* main, lines 129-131: nothing to convert, sys.exit(1)
NoFiles ==
    /\ UNCHANGED guiVars
    /\ pc = "collect"
    /\ ci > Len(args_input)
    /\ files = <<>>
    /\ out' = Append(out, emit_status("error", <<"No supported files found">>,
                                      <<>>, 0, 0, <<"No supported files found">>))
    /\ pc' = "exited"
    /\ exit_code' = 1
    /\ UNCHANGED <<fs, args_input, output_dir, ci, files, total, input_base,
                   successful, failed, results, idx, output_path, output_file,
                   converter_calls, writes>>

\* main without the "if not files" exit: "ready" also for an empty batch
Ready_NoEmptyCheck ==
    /\ UNCHANGED guiVars
    /\ pc = "collect"
    /\ ci > Len(args_input)
    /\ total' = Len(files)
    /\ out' = Append(out, emit_status("ready",
                  <<"Found ">> \o IntStr(Len(files)) \o <<" file(s) to convert">>,
                  <<>>, 0, Len(files), <<>>))
    /\ input_base' = InputBase(fs, args_input, files)
    /\ successful' = 0
    /\ failed' = 0
    /\ results' = <<>>
    /\ pc' = "loop"
    /\ UNCHANGED <<fs, args_input, output_dir, ci, files, idx, output_path,
                   output_file, exit_code, converter_calls, writes>>

\* main, lines 133-145: emit "ready", fix input_base, reset the counters
Ready ==
    /\ UNCHANGED guiVars
    /\ pc = "collect"
    /\ ci > Len(args_input)
    /\ files # <<>>
    /\ total' = Len(files)
    /\ out' = Append(out, emit_status("ready",
                  <<"Found ">> \o IntStr(Len(files)) \o <<" file(s) to convert">>,
                  <<>>, 0, Len(files), <<>>))
    /\ input_base' = InputBase(fs, args_input, files)
    /\ successful' = 0
    /\ failed' = 0
    /\ results' = <<>>
    /\ pc' = "loop"
    /\ UNCHANGED <<fs, args_input, output_dir, ci, files, idx, output_path,
                   output_file, exit_code, converter_calls, writes>>

\* the loop head with enumerate(files) counting from 0
Converting_FromZero ==
    /\ UNCHANGED guiVars
    /\ pc = "loop"
    /\ idx < Len(files)
    /\ idx' = idx + 1
    /\ out' = Append(out, emit_status("converting",
                  <<"Converting: ">> \o Name(files[idx + 1]),
                  Str(files[idx + 1]), idx, total, <<>>))
    /\ pc' = "resolve"
    /\ UNCHANGED <<fs, args_input, output_dir, ci, files, total, input_base,
                   successful, failed, results, output_path, output_file,
                   exit_code, converter_calls, writes>>

\* main, lines 147-149: the next file of the loop, emit "converting"
Converting ==
    /\ UNCHANGED guiVars
    /\ pc = "loop"
    /\ idx < Len(files)
    /\ idx' = idx + 1
    /\ out' = Append(out, emit_status("converting",
                  <<"Converting: ">> \o Name(files[idx + 1]),
                  Str(files[idx + 1]), idx + 1, total, <<>>))
    /\ pc' = "resolve"
    /\ UNCHANGED <<fs, args_input, output_dir, ci, files, total, input_base,
                   successful, failed, results, output_path, output_file,
                   exit_code, converter_calls, writes>>

\* main, line 151: get_output_path, called outside any try block.  An
\* OSError of mkdir is not caught anywhere: the process ends with status 1.
GetOutputPath ==
    /\ UNCHANGED guiVars
    /\ pc = "resolve"
    /\ LET cand == CandidatePath(files[idx], input_base, output_dir)
       IN  /\ output_path' = cand
           /\ IF MkdirOk(fs, Parent(cand))
              THEN /\ fs' = ResolvedFs(fs, cand)
                   /\ output_file' = get_unique_output_path(ResolvedFs(fs, cand), cand)
                   /\ pc' = "convert"
                   /\ exit_code' = exit_code
              ELSE /\ pc' = "crashed"
                   /\ exit_code' = 1
                   /\ UNCHANGED <<fs, output_file>>
    /\ UNCHANGED <<args_input, output_dir, ci, files, total, input_base,
                   successful, failed, results, idx, out, converter_calls,
                   writes>>

\* main, lines 153-157 with convert_file returning True: the conversion and
\* the write succeed
ConvertOk ==
    /\ UNCHANGED guiVars
    /\ pc = "convert"
    /\ CanOpenForWrite(fs, output_file)
    /\ converter_calls' = converter_calls + 1
    /\ fs' = CreateFile(fs, output_file)
    /\ writes' = Append(writes, output_file)
    /\ successful' = successful + 1
    /\ results' = Append(results, [input |-> Str(files[idx]),
                                   output |-> Str(output_file), success |-> TRUE])
    /\ out' = Append(out, emit_status("converted",
                  <<"Converted: ">> \o Name(files[idx]),
                  Str(files[idx]), idx, total, <<>>))
    /\ pc' = "loop"
    /\ UNCHANGED <<args_input, output_dir, ci, files, total, input_base,
                   failed, idx, output_path, output_file, exit_code>>

\* the failure branch without "failed += 1"
RecordFailure_NoCount(e) ==
    /\ failed' = failed
    /\ results' = Append(results, [input |-> Str(files[idx]),
                                   output |-> <<>>, success |-> FALSE])
    /\ out' = Append(out, emit_status("error", e, Str(files[idx]), 0, 0, e))
    /\ pc' = "loop"

\* convert_file's except clause (line 108) and the else branch of main
\* (lines 158-160), after convert_file returned False
RecordFailure(e) ==
    /\ failed' = failed + 1
    /\ results' = Append(results, [input |-> Str(files[idx]),
                                   output |-> <<>>, success |-> FALSE])
    /\ out' = Append(out, emit_status("error", e, Str(files[idx]), 0, 0, e))
    /\ pc' = "loop"

\* convert_file: an exception before the output file is created (the
\* import, the converter, the export, or open() inside write_text)
ConvertFails ==
    /\ UNCHANGED guiVars
    /\ pc = "convert"
    /\ \E e \in ConvertErrors : RecordFailure(e)
    /\ converter_calls' = converter_calls + 1
    /\ UNCHANGED <<fs, args_input, output_dir, ci, files, total, input_base,
                   successful, idx, output_path, output_file, exit_code, writes>>

\* convert_file: write_text raises after open(..., 'w') has created the
\* file (a failed or partial write)
WriteFails ==
    /\ UNCHANGED guiVars
    /\ pc = "convert"
    /\ CanOpenForWrite(fs, output_file)
    /\ \E e \in WriteErrors : RecordFailure(e)
    /\ converter_calls' = converter_calls + 1
    /\ fs' = CreateFile(fs, output_file)
    /\ writes' = Append(writes, output_file)
    /\ UNCHANGED <<args_input, output_dir, ci, files, total, input_base,
                   successful, idx, output_path, output_file, exit_code>>

\* main, lines 162-171: the loop is over, print the summary, return
EmitSummary ==
    /\ UNCHANGED guiVars
    /\ pc = "loop"
    /\ idx = Len(files)
    /\ out' = Append(out, Summary(successful, failed, total, results))
    /\ pc' = "done"
    /\ exit_code' = 0
    /\ UNCHANGED <<fs, args_input, output_dir, ci, files, total, input_base,
                   successful, failed, results, idx, output_path, output_file,
                   converter_calls, writes>>

Next ==
    \/ Start
    \/ CollectInput
    \/ NoFiles
    \/ Ready
    \/ Converting
    \/ GetOutputPath
    \/ ConvertOk
    \/ ConvertFails
    \/ WriteFails
    \/ EmitSummary

Spec == Init /\ [][Next]_vars

-----------------------------------------------------------------------------
(* The front-end, src/converter.py.  The handlers run on the interactive    *)
(* thread one at a time; a modal dialog is answered inside its handler.     *)

\* the paths a user can put into the entry field or pick in the dialogs
GuiInputs == { <<docs, a_pdf>>, <<nope>> }
GuiOutputs == { <<docs, a_md>> }

\* str(e) of what do_conversion can catch
GuiErrors == { "conversion failed" }

GuiInit ==
    /\ GuiConstructed
    /\ fs = BaseFs
    /\ args_input = <<>>
    /\ output_dir = <<>>
    /\ pc = "mainloop"
    /\ ci = 1
    /\ files = <<>>
    /\ total = 0
    /\ input_base = <<>>
    /\ successful = 0
    /\ failed = 0
    /\ results = <<>>
    /\ idx = 0
    /\ output_path = <<>>
    /\ output_file = <<>>
    /\ out = <<>>
    /\ exit_code = -1
    /\ converter_calls = 0
    /\ writes = <<>>

\* browse_file: the file dialog returns a file name, or "" when cancelled
browse_file ==
    /\ \E filename \in GuiInputs \cup {<<>>} :
          IF filename # <<>>
          THEN /\ file_path' = filename
               /\ status_var' = "Ready to convert"
          ELSE UNCHANGED <<file_path, status_var>>
    /\ UNCHANGED <<fs, cliVars, btn_state, progress_on, last_dialog, workers,
                   after_queue, started, completed, callback_errors>>

\* the user edits the entry bound to self.file_path (lines 29-31)
EditEntry ==
    /\ \E text \in GuiInputs \cup {<<>>} : file_path' = text
    /\ UNCHANGED <<fs, cliVars, btn_state, progress_on, status_var,
                   last_dialog, workers, after_queue, started, completed,
                   callback_errors>>

\* convert_file, lines 94-99: disable the button, start the progress bar
\* and the worker thread
StartWorker(input_path, out_path) ==
    /\ btn_state' = "disabled"
    /\ progress_on' = TRUE
    /\ status_var' = "Converting... Please wait"
    /\ started' = started + 1
    /\ workers' = workers \cup {[tid |-> started + 1, at |-> "try",
                                 input |-> input_path, output |-> out_path]}
    /\ UNCHANGED last_dialog

\* convert_file, the command of the convert button; a disabled ttk button
\* does not invoke its command
convert_file ==
    /\ btn_state = "normal"
    /\ started < MaxConversions
    /\ IF file_path = <<>>
       THEN /\ last_dialog' = "No file selected"
            /\ UNCHANGED <<btn_state, progress_on, status_var, started, workers>>
       ELSE IF ~Exists(fs, file_path)
       THEN /\ last_dialog' = "File not found"
            /\ UNCHANGED <<btn_state, progress_on, status_var, started, workers>>
       ELSE \E out_path \in GuiOutputs \cup {<<>>} :
               IF out_path = <<>>
               THEN UNCHANGED <<btn_state, progress_on, status_var, started,
                                workers, last_dialog>>
               ELSE StartWorker(file_path, out_path)
    /\ UNCHANGED <<fs, cliVars, file_path, after_queue, completed,
                   callback_errors>>

\* do_conversion, lines 102-112: the conversion and the write succeed; the
\* lambda scheduled holds output_path, a parameter; the thread ends
do_conversion_ok ==
    /\ \E w \in workers :
          /\ w.at = "try"
          /\ fs' = CreateFile(fs, w.output)
          /\ after_queue' = Append(after_queue, [tid |-> w.tid, success |-> TRUE])
          /\ workers' = workers \ {w}
    /\ UNCHANGED <<cliVars, file_path, btn_state, progress_on, status_var,
                   last_dialog, started, completed, callback_errors>>

\* do_conversion, lines 113-114: an exception is caught as e and a lambda
\* that reads e is scheduled; the thread is still inside the except block
do_conversion_except ==
    /\ \E w \in workers :
          /\ w.at = "try"
          /\ after_queue' = Append(after_queue, [tid |-> w.tid, success |-> FALSE])
          /\ workers' = (workers \ {w}) \cup {[w EXCEPT !.at = "except"]}
    /\ UNCHANGED <<fs, cliVars, file_path, btn_state, progress_on, status_var,
                   last_dialog, started, completed, callback_errors>>

\* do_conversion leaves the except block: Python unbinds e, the thread ends
do_conversion_return ==
    /\ \E w \in workers :
          /\ w.at = "except"
          /\ workers' = workers \ {w}
    /\ UNCHANGED <<fs, cliVars, file_path, btn_state, progress_on, status_var,
                   last_dialog, after_queue, started, completed,
                   callback_errors>>

\* conversion_complete
conversion_complete(success) ==
    /\ progress_on' = FALSE
    /\ btn_state' = "normal"
    /\ status_var' = IF success THEN "Conversion complete!" ELSE "Conversion failed"
    /\ last_dialog' = IF success THEN "Success" ELSE "Error"
    /\ completed' = completed + 1

\* the main loop runs the next scheduled lambda.  The lambda of line 114
\* evaluates str(e) first: once do_conversion has left its except block e
\* is unbound, the lambda raises NameError and conversion_complete is not
\* called; Tk reports the exception and goes on.
RunScheduled ==
    /\ after_queue # <<>>
    /\ LET cb == Head(after_queue)
           bound == \E w \in workers : w.tid = cb.tid /\ w.at = "except"
       IN  IF cb.success \/ bound
           THEN /\ conversion_complete(cb.success)
                /\ UNCHANGED callback_errors
           ELSE /\ callback_errors' = callback_errors + 1
                /\ UNCHANGED <<progress_on, btn_state, status_var, last_dialog,
                               completed>>
    /\ after_queue' = Tail(after_queue)
    /\ UNCHANGED <<fs, cliVars, file_path, workers, started>>

GuiNext ==
    \/ browse_file
    \/ EditEntry
    \/ convert_file
    \/ do_conversion_ok
    \/ do_conversion_except
    \/ do_conversion_return
    \/ RunScheduled

SpecGui == GuiInit /\ [][GuiNext]_vars

-----------------------------------------------------------------------------
(* Auxiliary definitions for the properties *)

\* the records printed so far with a given status
EventsOf(status) == SelectSeq(out, LAMBDA r : r.status = status)

Count(status) == Len(EventsOf(status))

\* the run is over: returned, sys.exit(1), or an uncaught exception
Ended == pc \in {"done", "exited", "crashed"}

\* collect_files has returned
DiscoveryReturned == pc # "start" /\ ci > Len(args_input)

\* the per-file "error" events: those printed after "ready"
RECURSIVE ErrorsAfterReady(_, _)
ErrorsAfterReady(k, seen) ==
    IF k > Len(out) THEN 0
    ELSE (IF seen /\ out[k].status = "error" THEN 1 ELSE 0)
         + ErrorsAfterReady(k + 1, seen \/ out[k].status = "ready")

\* the extension of p, compared case-insensitively, is a supported one
SupportedCI(p) ==
    LET ext == Suffix(Name(p))
    IN  \E e \in SUPPORTED_EXTENSIONS :
            /\ Len(e) = Len(ext)
            /\ \A k \in 1..Len(e) : LowerChar(ext[k]) = e[k]

\* the supported regular files below directory p
SupportedBelow(p) ==
    { q \in DOMAIN fs :
        /\ Len(q) > Len(p)
        /\ SubSeq(q, 1, Len(p)) = p
        /\ fs[q] = "file"
        /\ SupportedCI(q) }

\* how many files the k-th input contributes
ContributionLen(k) ==
    LET p == Path(args_input[k])
    IN  IF p \in DOMAIN fs /\ fs[p] = "file" THEN (IF SupportedCI(p) THEN 1 ELSE 0)
        ELSE IF p \in DOMAIN fs /\ fs[p] = "dir" THEN Cardinality(SupportedBelow(p))
        ELSE 0

RECURSIVE Offset(_)
Offset(k) == IF k = 0 THEN 0 ELSE Offset(k - 1) + ContributionLen(k)

\* the discovery events the inputs 1..k call for: "error" for a path that
\* does not exist, "warning" for a named regular file that is unsupported
RECURSIVE ExpectedDiscoveryEvents(_)
ExpectedDiscoveryEvents(k) ==
    IF k = 0 THEN <<>>
    ELSE LET s == args_input[k]
             p == Path(s)
         IN  ExpectedDiscoveryEvents(k - 1) \o
             ( IF p \notin DOMAIN fs THEN << <<"error", s>> >>
               ELSE IF fs[p] = "file" /\ ~SupportedCI(p)
                    THEN << <<"warning", Str(p)>> >>
               ELSE <<>> )

-----------------------------------------------------------------------------
(* The claims *)

\* C1: no error of a per-file step (resolving the output path, converting,
\* writing) stops the run: once the batch is ready, a run only ends with a
\* result recorded for every discovered file and the summary printed.
C1_PerFileErrorsIsolated ==
    (Ended /\ Count("ready") = 1) =>
        /\ pc = "done"
        /\ Len(results) = Len(files)
        /\ Count("complete") = 1

\* C2: a run ends without a summary and with a non-zero status if and only
\* if discovery returned zero files.
C2_NoSummaryIffNoFiles ==
    (Ended /\ DiscoveryReturned) =>
        ((Count("complete") = 0 /\ exit_code # 0) <=> files = <<>>)

\* C3: every summary has successful + failed = total = number of discovered
\* files = length of results, and at every iteration boundary of the loop
\* successful + failed = number of results = number of files processed.
C3_CountsAgree ==
    /\ pc = "loop" =>
        /\ successful + failed = Len(results)
        /\ Len(results) = idx
        /\ successful = Len(SelectSeq(results, LAMBDA r : r.success))
    /\ \A k \in 1..Len(out) :
        out[k].status = "complete" =>
            /\ out[k].successful + out[k].failed = out[k].total
            /\ out[k].total = Len(files)
            /\ Len(out[k].results) = out[k].total

C3_Witness ==
    /\ pc = "done"
    /\ successful >= 1
    /\ failed >= 1

\* C4: when discovery yields zero files the run prints one "error" event
\* with message "No supported files found", exits with status 1, prints no
\* "ready", "converting", "converted" or "complete" record and never calls
\* the converter.
C4_EmptyBatch ==
    (DiscoveryReturned /\ files = <<>>) =>
        /\ pc \in {"collect", "exited"}
        /\ Count("ready") = 0
        /\ Count("converting") = 0
        /\ Count("converted") = 0
        /\ Count("complete") = 0
        /\ converter_calls = 0
        /\ pc = "exited" =>
            /\ exit_code = 1
            /\ out[Len(out)].status = "error"
            /\ Len(SelectSeq(out, LAMBDA r :
                   r.message = <<"No supported files found">>)) = 1

C4_Witness ==
    /\ pc = "exited"
    /\ files = <<>>
    /\ Count("error") >= 2

\* C5: in any run with N discovered files, N "converting" events are
\* printed after "ready" and one terminal event ("converted" or "error")
\* per file, as many as successful + failed, and the summary's total is N.
C5_EventCounts ==
    (Ended /\ Count("ready") = 1) =>
        /\ Count("converting") = Len(files)
        /\ Count("converted") + ErrorsAfterReady(1, FALSE) = Len(files)
        /\ Count("converted") + ErrorsAfterReady(1, FALSE) = successful + failed
        /\ Count("complete") = 1
        /\ out[Len(out)].total = Len(files)

\* C6: when get_output_path returns, nothing exists at the returned path
\* and every parent directory of it exists.
C6_ResolvedPathFree ==
    pc = "convert" =>
        /\ output_file \notin DOMAIN fs
        /\ \A k \in 0..(Len(output_file) - 1) :
              /\ SubSeq(output_file, 1, k) \in DOMAIN fs
              /\ fs[SubSeq(output_file, 1, k)] = "dir"

C6_Witness ==
    /\ pc = "convert"
    /\ output_file # output_path
    /\ Len(output_file) = 3

\* C7: get_unique_output_path(P) returns P when nothing exists at P, and
\* otherwise P's stem with _k before the extension for the smallest k >= 1
\* whose name is free: every _j with 1 <= j < k exists.
C7_FirstFreeSuffix ==
    pc = "convert" =>
        LET P == output_path
            Numbered(k) == Join(Parent(P), Stem(Name(P)) \o <<"_">>
                                           \o IntStr(k) \o Suffix(Name(P)))
        IN  IF P \notin DOMAIN fs THEN output_file = P
            ELSE \E k \in 1..Cardinality(DOMAIN fs) :
                    /\ output_file = Numbered(k)
                    /\ Numbered(k) \notin DOMAIN fs
                    /\ \A j \in 1..(k - 1) : Numbered(j) \in DOMAIN fs

C7_Witness ==
    /\ pc = "convert"
    /\ output_path = <<outn, a_md>>
    /\ output_file = <<outn, <<"a", "_", "2", ".", "m", "d">> >>

\* C8: files are processed one at a time in discovery order: the k-th
\* "converting" event names the k-th discovered file with progress = k, the
\* k-th result is the k-th file's, and the summary has all N of them.
C8_DiscoveryOrder ==
    LET conv == EventsOf("converting")
    IN  /\ \A k \in 1..Len(conv) :
              /\ conv[k].file = Str(files[k])
              /\ conv[k].progress = k
        /\ \A k \in 1..Len(results) : results[k].input = Str(files[k])
        /\ Len(results) <= Len(conv)
        /\ Len(conv) <= Len(results) + 1
        /\ pc = "done" =>
              /\ Len(conv) = Len(files)
              /\ Len(out[Len(out)].results) = Len(files)
              /\ \A k \in 1..Len(files) :
                    out[Len(out)].results[k].input = Str(files[k])

C8_Witness ==
    /\ pc = "done"
    /\ Len(files) >= 3
    /\ files[1] # files[2]

\* C9: collect_files returns the per-input contributions concatenated in
\* input order, without deduplication: a named regular file itself iff its
\* extension is supported (case-insensitively), a directory's supported
\* descendant regular files, nothing for a missing path.
C9_CollectFiles ==
    pc = "collect" =>
        /\ Len(files) = Offset(ci - 1)
        /\ \A k \in 1..(ci - 1) :
            LET p   == Path(args_input[k])
                seg == SubSeq(files, Offset(k - 1) + 1, Offset(k))
            IN  /\ (p \in DOMAIN fs /\ fs[p] = "file" /\ SupportedCI(p))
                       => seg = <<p>>
                /\ (p \in DOMAIN fs /\ fs[p] = "file" /\ ~SupportedCI(p))
                       => seg = <<>>
                /\ (p \in DOMAIN fs /\ fs[p] = "dir")
                       => /\ { seg[j] : j \in 1..Len(seg) } = SupportedBelow(p)
                          /\ Len(seg) = Cardinality(SupportedBelow(p))
                /\ p \notin DOMAIN fs => seg = <<>>

C9_Witness ==
    /\ pc = "collect"
    /\ ci > Len(args_input)
    /\ Len(files) = 3
    /\ files[1] = files[3]
    /\ files[2] = <<docs, xdir, y_PDF>>

\* C10: during discovery an "error" event naming the path is printed
\* exactly for each input path that does not exist and a "warning" exactly
\* for each named regular file with an unsupported extension, in input
\* order, and nothing else.
C10_DiscoveryEvents ==
    pc = "collect" =>
        [k \in 1..(Len(out) - 1) |-> <<out[k + 1].status, out[k + 1].file>>]
            = ExpectedDiscoveryEvents(ci - 1)


\* C11: with nothing at the candidate, get_output_path returns outputDir
\* joined with the file's path relative to inputBase, extension replaced
\* by .md, when the file lies below inputBase, and outputDir joined with
\* the bare file name with extension .md when it does not.
C11_StructurePreserved ==
    (pc = "convert" /\ output_path \notin DOMAIN fs) =>
        LET file    == files[idx]
            name_md == Stem(Name(file)) \o <<".", "m", "d">>
            below   == /\ Len(input_base) < Len(file)
                       /\ SubSeq(file, 1, Len(input_base)) = input_base
        IN  IF below
            THEN output_file = output_dir
                     \o SubSeq(file, Len(input_base) + 1, Len(file) - 1)
                     \o <<name_md>>
            ELSE output_file = output_dir \o <<name_md>>

C11_Witness ==
    /\ pc = "convert"
    /\ files[idx] = <<docs, xdir, y_PDF>>
    /\ input_base = <<docs>>
    /\ output_dir = <<outn>>
    /\ output_file = <<outn, xdir, <<"y", ".", "m", "d">> >>

\* C12: a second call of get_output_path for the same file, with no write
\* in between, returns the same path: resolution creates no file and keeps
\* no state, it only adds directories to the filesystem.
C12_SecondCall ==
    LET cand == CandidatePath(files[idx], input_base, output_dir)
    IN  get_unique_output_path(ResolvedFs(fs, cand), cand)

C12_IdempotentResolution ==
    /\ [](pc = "convert" => (MkdirOk(fs, Parent(output_path))
                             /\ C12_SecondCall = output_file))
    /\ [][pc = "resolve" =>
            /\ \A q \in DOMAIN fs : q \in DOMAIN fs' /\ fs'[q] = fs[q]
            /\ \A q \in DOMAIN fs' \ DOMAIN fs : fs'[q] = "dir"]_vars

C12_Witness ==
    /\ pc = "convert"
    /\ output_file = <<outn, a_1_md>>
    /\ C12_SecondCall = <<outn, a_1_md>>

\* C13: every record on standard output is a progress record with exactly
\* the fields status, message, file, progress, total, error, a status other
\* than "complete" and neutral defaults for what it does not carry, or it
\* is the summary record with status "complete".
C13_RecordShapes ==
    \A k \in 1..Len(out) :
        LET r == out[k]
        IN  \/ /\ DOMAIN r = {"status", "message", "file", "progress",
                              "total", "error"}
               /\ r.status \in {"starting", "ready", "warning", "converting",
                                "converted", "error"}
               /\ r.message \in Seq(STRING)
               /\ r.file \in Seq(STRING)
               /\ r.error \in Seq(STRING)
               /\ r.progress \in Nat
               /\ r.total \in Nat
               /\ r.status \in {"starting", "ready"} => r.file = <<>>
               /\ r.status \notin {"converting", "converted"} => r.progress = 0
               /\ r.status \in {"starting", "warning", "error"} => r.total = 0
               /\ r.status # "error" => r.error = <<>>
            \/ /\ DOMAIN r = {"status", "message", "successful", "failed",
                              "total", "results"}
               /\ r.status = "complete"

C13_Witness ==
    /\ pc = "done"
    /\ \A s \in {"starting", "ready", "warning", "converting", "converted",
                 "error", "complete"} : Count(s) >= 1

\* C14: input_base is fixed before the first file is processed: the single
\* input entry when there is exactly one and it is a directory, otherwise
\* the parent directory of the first discovered file; a discovered file not
\* below that base goes directly under output_dir by its bare name.
C14_InputBase ==
    /\ Count("ready") = 1 =>
          input_base =
             IF Len(args_input) = 1 /\ Path(args_input[1]) \in DOMAIN fs
                /\ fs[Path(args_input[1])] = "dir"
             THEN Path(args_input[1])
             ELSE SubSeq(files[1], 1, Len(files[1]) - 1)
    /\ (pc = "convert" /\ ~IsPrefix(input_base, files[idx])) =>
          output_path = Append(output_dir, Stem(Name(files[idx])) \o <<".", "m", "d">>)

C14_Witness ==
    /\ pc = "convert"
    /\ Len(args_input) = 2
    /\ input_base = <<docs, xdir>>
    /\ files[idx] = <<docs, a_pdf>>
    /\ output_path = <<outn, a_md>>


\* position in out of the "ready" record, 0 when there is none
RECURSIVE ReadyPos(_)
ReadyPos(k) == IF k > Len(out) THEN 0
               ELSE IF out[k].status = "ready" THEN k ELSE ReadyPos(k + 1)

\* the records of the k-th processed file: its "converting" event and
\* what follows it, at positions ConvPos(k) and ConvPos(k) + 1
ConvPos(k) == ReadyPos(1) + 2 * k - 1

\* the k-th result agrees with the events of the k-th file
ResultAgrees(k) ==
    LET r == results[k]
        t == out[ConvPos(k) + 1]
    IN  /\ r.input = Str(files[k])
        /\ out[ConvPos(k)].status = "converting"
        /\ out[ConvPos(k)].file = r.input
        /\ t.status \in {"converted", "error"}
        /\ t.file = r.input
        /\ r.success <=> t.status = "converted"
        /\ r.success <=> r.output # <<>>
        /\ r.success =>
              \E w \in 1..Len(writes) :
                  /\ r.output = Str(writes[w])
                  /\ writes[w] \in DOMAIN fs /\ fs[writes[w]] = "file"
        /\ ~r.success => t.message = t.error
        /\ (ConvPos(k) + 2 <= Len(out)) =>
              out[ConvPos(k) + 2].status \in {"converting", "complete"}

\* every recorded result agrees with its events, and the result just
\* recorded names the path just resolved
ResultsAgree ==
    /\ \A k \in 1..Len(results) : ResultAgrees(k)
    /\ (pc = "loop" /\ idx >= 1 /\ results[idx].success) =>
          results[idx].output = Str(output_file)

\* C15: exactly one result is recorded per discovered file, and for each
\* file success, the "converted" event and a non-empty output agree; a
\* successful result names the resolved path, where the Markdown was
\* written; a failed one has output "" and one "error" event whose message
\* and error fields carry the failure's message.
C15_OneResultPerFile ==
    /\ ResultsAgree
    /\ (Ended /\ Count("ready") = 1) => Len(results) = Len(files)

\* C16: the event stream is ordered: "starting" first, discovery warnings
\* and errors before "ready", "ready" once with total = N before every
\* "converting", each file's "converting" directly followed by its
\* terminal event, and the summary once, after the last file's terminal
\* event, as the last record of the run.
StreamOrdered ==
    LET rp == ReadyPos(1)
    IN  /\ Len(out) >= 1 => out[1].status = "starting"
        /\ Count("ready") <= 1
        /\ Count("complete") <= 1
        /\ \A k \in 2..Len(out) :
              IF rp = 0 \/ k < rp
              THEN out[k].status \in {"warning", "error"}
              ELSE IF k = rp THEN out[k].total = Len(files)
              ELSE IF k = rp + 2 * Len(files) + 1
                   THEN out[k].status = "complete" /\ k = Len(out)
              ELSE IF (k - rp) % 2 = 1
                   THEN /\ out[k].status = "converting"
                        /\ out[k].file = Str(files[(k - rp + 1) \div 2])
                   ELSE /\ out[k].status \in {"converted", "error"}
                        /\ out[k].file = out[k - 1].file

C16_StreamOrderedAndComplete ==
    /\ StreamOrdered
    /\ (Ended /\ Count("ready") = 1) =>
          (Count("complete") = 1 /\ out[Len(out)].status = "complete")

\* C18: every write creates a file at a path where nothing existed, so no
\* file present before the run is overwritten, and no two writes and no
\* two successful results share an output path.
C18_NoOverwrite ==
    /\ [][writes' # writes =>
            /\ Len(writes') = Len(writes) + 1
            /\ writes'[Len(writes')] \notin DOMAIN fs
            /\ writes'[Len(writes')] \in DOMAIN fs'
            /\ \A q \in DOMAIN fs : q \in DOMAIN fs' /\ fs'[q] = fs[q]]_vars
    /\ [](\A a, b \in 1..Len(writes) : a # b => writes[a] # writes[b])
    /\ [](\A a, b \in 1..Len(results) :
             (a # b /\ results[a].success /\ results[b].success)
                 => results[a].output # results[b].output)

C18_Witness ==
    /\ pc = "done"
    /\ Len(results) = 2
    /\ results[1].input = results[2].input
    /\ results[1].success /\ results[2].success
    /\ results[1].output = Str(<<outn, a_1_md>>)


\* no conversion is under way: no worker thread, no completion scheduled
GuiQuiescent == workers = {} /\ after_queue = <<>>

\* the workers that have not yet handed their completion to the main loop
InTry == { w \in workers : w.at = "try" }

\* C17: every conversion started by convert_file delivers one completion:
\* conversion_complete runs once for it, whether do_conversion succeeded
\* or raised, and then the progress bar is stopped and the button enabled.
C17_CompletionDelivered ==
    /\ completed <= started
    /\ GuiQuiescent =>
          /\ completed = started
          /\ ~progress_on
          /\ btn_state = "normal"

\* C19: at most one conversion worker exists at any time: the button is
\* disabled while a worker runs, and it is enabled whenever no conversion
\* is under way.
C19_OneWorker ==
    /\ Cardinality(InTry) <= 1
    /\ InTry # {} => btn_state = "disabled"
    /\ GuiQuiescent => btn_state = "normal"

\* the part of C19 that does not depend on the completion being delivered
AtMostOneWorker ==
    /\ Cardinality(InTry) <= 1
    /\ InTry # {} => btn_state = "disabled"

\* both hold in every run in which no scheduled callback has raised
DeliveredUnlessCallbackRaised ==
    callback_errors = 0 => C17_CompletionDelivered /\ C19_OneWorker

====
